---- MODULE Spec2Model ----
(***************************************************************************)
(* Model of pygeo/constraints/thicknessConstraint.py: the six geometric    *)
(* constraint classes (ThicknessConstraint, ProjectedThicknessConstraint,  *)
(* ThicknessToChordConstraint, KSMaxThicknessToChordConstraint,            *)
(* TESlopeConstraint, ProximityConstraint), their evalFunctions and        *)
(* evalFunctionsSens methods, and the DVGeo collaborator they call.        *)
(*                                                                         *)
(* One constraint object is constructed (Init) and then evaluated any      *)
(* number of times.  The funcs / funcsSens dictionaries are arguments of   *)
(* each call: the caller passes a dictionary (funcsIn / funcsSensIn) and   *)
(* the method mutates it (funcs / funcsSens hold it as it is on return).   *)
(* The caller, the optimizer driver, takes the result of a call before it  *)
(* makes the next one.                                                     *)
(*                                                                         *)
(* Numbers.  A float is a pair <<n, d>>: the rational n/d in lowest terms  *)
(* with d > 0, or one of the IEEE specials <<1,0>> (+inf), <<-1,0>> (-inf) *)
(* and <<0,0>> (nan), which numpy produces on a division by zero.  The     *)
(* sign of zero is not modelled: every divisor in the program is a norm or *)
(* a ratio of norms, hence never -0.  Square roots are exact: the input    *)
(* coordinates are drawn from sets on which every distance the program     *)
(* takes is rational.  Indices are 0-based as in the source: At(s, i) is   *)
(* s[i] of the source.                                                     *)
(***************************************************************************)
EXTENDS Integers, Sequences, FiniteSets, TLC

\* Largest number of constraints (toothpicks) of the constructed object.
MaxCon == 2
\* Largest value DVGeo.getNDV() returns.
MaxNDV == 1

\* The constraint's name (constructor argument `name`).
name == "con"

(***************************************************************************)
(* Float arithmetic                                                        *)
(***************************************************************************)
Sign(n) == IF n > 0 THEN 1 ELSE IF n < 0 THEN -1 ELSE 0
Abs(n) == IF n < 0 THEN -n ELSE n

RECURSIVE GCD(_, _)
GCD(a, b) == IF b = 0 THEN a ELSE GCD(b, a % b)

Norm(n, d) ==
    IF d = 0 THEN <<Sign(n), 0>>
    ELSE LET g == GCD(Abs(n), Abs(d))
             s == Sign(d)
         IN  <<(s * n) \div g, (s * d) \div g>>

Rat(n) == <<n, 1>>
Zero == <<0, 1>>
One == <<1, 1>>
NaN == <<0, 0>>
PosInf == <<1, 0>>

IsFinite(a) == a[2] # 0

Neg(a) == <<-a[1], a[2]>>

Add(a, b) ==
    IF IsFinite(a) /\ IsFinite(b) THEN Norm(a[1] * b[2] + b[1] * a[2], a[2] * b[2])
    ELSE IF a = NaN \/ b = NaN THEN NaN
    ELSE IF ~IsFinite(a) /\ ~IsFinite(b) THEN (IF a = b THEN a ELSE NaN)
    ELSE IF IsFinite(a) THEN b ELSE a

Sub(a, b) == Add(a, Neg(b))

Mul(a, b) == Norm(a[1] * b[1], a[2] * b[2])

Inv(a) ==
    IF IsFinite(a) THEN Norm(a[2], a[1])
    ELSE IF a = NaN THEN NaN ELSE Zero

Div(a, b) == Mul(a, Inv(b))

\* The integer square root of a perfect square, searched from r upwards.
RECURSIVE Root(_, _)
Root(n, r) == IF r * r >= n THEN r ELSE Root(n, r + 1)
ISqrt(n) == Root(n, 0)

\* np.sqrt of a non-negative float whose root is rational.
Sqrt(a) == IF IsFinite(a) THEN <<ISqrt(a[1]), ISqrt(a[2])>> ELSE a

(***************************************************************************)
(* Points and arrays of points                                             *)
(***************************************************************************)
At(s, i) == s[i + 1]

Pt(x, y, z) == <<Rat(x), Rat(y), Rat(z)>>

VSub(p, q) == <<Sub(p[1], q[1]), Sub(p[2], q[2]), Sub(p[3], q[3])>>
VScale(p, a) == <<Mul(p[1], a), Mul(p[2], a), Mul(p[3], a)>>
VDivS(p, a) == <<Div(p[1], a), Div(p[2], a), Div(p[3], a)>>
VNeg(p) == <<Neg(p[1]), Neg(p[2]), Neg(p[3])>>
Zero3 == <<Zero, Zero, Zero>>

SumSq(v) == Add(Add(Mul(v[1], v[1]), Mul(v[2], v[2])), Mul(v[3], v[3]))

\* geo_utils.norm.euclideanNorm(v)
euclideanNorm(v) == Sqrt(SumSq(v))

\* geo_utils.norm.eDist(x1, x2)
eDist(x1, x2) == euclideanNorm(VSub(x1, x2))

\* geo_utils.eDist_b(x1, x2): the reverse-mode seeds <<x1b, x2b>> of eDist,
\* zero where the two points coincide.
eDist_b(x1, x2) ==
    LET d == eDist(x1, x2)
        g == IF d = Zero THEN Zero3 ELSE VDivS(VSub(x1, x2), d)
    IN  <<g, VNeg(g)>>

\* numpy.linalg.norm(v)
linalgNorm(v) == Sqrt(SumSq(v))

\* dict[k] = v
Put(d, k, v) == [x \in DOMAIN d \cup {k} |-> IF x = k THEN v ELSE d[x]]

\* np.zeros((n0, n1, 3))
Zeros3(n0, n1) == [i \in 1..n0 |-> [j \in 1..n1 |-> Zero3]]

\* a[i, j, :] = v  (0-based i, j)
Set3(a, i, j, v) == [a EXCEPT ![i + 1][j + 1] = v]

(***************************************************************************)
(* Input coordinates                                                       *)
(***************************************************************************)
P0 == Pt(0, 0, 0)
Px == Pt(3, 0, 0)
Py == Pt(0, 4, 0)
Pxy == Pt(3, 4, 0)

\* n toothpicks, each a pair <<top, bottom>>, stacked as 2n points.
Toothpicks(f, n) ==
    [j \in 1..(2 * n) |-> f[(j + 1) \div 2][IF j % 2 = 1 THEN 1 ELSE 2]]

\* The arrays of n toothpicks taken in order from the cyclic list L,
\* starting anywhere in it.
Rot(L, s, n) == Toothpicks([k \in 1..n |-> L[((s + k - 1) % Len(L)) + 1]], n)
Arrays(L, n) == {Rot(L, s, n) : s \in 0..(Len(L) - 1)}

\* n groups of w points each, taken in order from the cyclic list L starting
\* at its element s, stacked as w * n points.
Groups(L, s, n, w) ==
    [j \in 1..(w * n) |-> L[((s + (j - 1) \div w) % Len(L)) + 1][((j - 1) % w) + 1]]
GroupArrays(L, n, w) == {Groups(L, s, n, w) : s \in 0..(Len(L) - 1)}

\* An unpaired trailing point, when the array has odd length.
Unpaired(odd) == IF odd THEN <<Pxy>> ELSE <<>>

\* Keys of the design variables DVGeo knows.
DVKeys == {"twist", "shape"}

\* What DVGeo.totalSensitivity(seed, ptSetName) may return: a dictionary over
\* any of the keys (a point set need not depend on every design variable).
\* The values, Jacobians in the program, are abstracted to integers: distinct
\* powers of two, by key and by position j of the call within the method, so
\* that a sum tells which contributions it is made of.
Jac(j, k) == (IF k = "twist" THEN 1 ELSE 2) * (IF j = 1 THEN 1 ELSE 4)
SensDicts(j) == {[k \in K |-> Jac(j, k)] : K \in SUBSET DVKeys}

\* The funcs dictionary a caller passes in: holding another constraint's
\* entry, or holding also a stale entry under this constraint's name.
Stale == <<Rat(7)>>
FuncsArgs ==
    { [k \in {"other"} |-> Stale],
      [k \in {"other", name} |-> Stale] }

\* The funcsSens dictionary a caller passes in, likewise.
StaleSens == [k \in {"twist"} |-> 9]
FuncsSensArgs ==
    { [k \in {"other"} |-> StaleSens],
      [k \in {"other", name} |-> StaleSens] }

None == <<>>

VARIABLES
    \* the constraint object
    cls,            \* its class
    scaled,         \* self.scaled
    divideByChord,  \* self.divideByChord
    rho,            \* self.rho
    ksApproach,     \* self.ksApproach
    nCon,           \* self.nCon
    nPoint,         \* self.nPoint
    coords,         \* self.coords
    leTePts,        \* self.leTePts
    coordsA,        \* self.coordsA
    coordsB,        \* self.coordsB
    D0,             \* self.D0
    dir_vec,        \* self.dir_vec
    ToC0,           \* self.ToC0
    max0,           \* self.max0
    teSlope0,       \* self.teSlope0
    \* DVGeo
    ptSets,         \* point-set name -> number of points embedded
    \* the last call
    op,             \* "evalFunctions" or "evalFunctionsSens"; "none" when the
                    \* driver holds no result of a call
    err,            \* the exception it raised, or "none"
    nDV,            \* what DVGeo.getNDV() returned to it
    funcsIn,        \* funcs as passed to evalFunctions
    funcs,          \* funcs as evalFunctions left it
    funcsSensIn,    \* funcsSens as passed to evalFunctionsSens
    funcsSens,      \* funcsSens as evalFunctionsSens left it
    updCalls,       \* the names it passed to DVGeo.update, in order
    updRet,         \* what those calls returned
    sensCalls,      \* the <<seed, name>> it passed to DVGeo.totalSensitivity
    sensRet,        \* what those calls returned
    computeArgs,    \* the arrays it passed to self._compute, in order
    \* history
    ctor,           \* the constructor's coordinate arguments
    lastEval        \* the latest evalFunctions: what DVGeo.update returned
                    \* to it (ret), what it stored under funcs[name] (value)
                    \* and whether the evalFunctions before it got the same
                    \* coordinates (again)

obj == <<cls, scaled, divideByChord, rho, ksApproach, nCon, nPoint,
         D0, dir_vec, ToC0, max0, teSlope0>>
cached == <<coords, leTePts, coordsA, coordsB>>
call == <<op, err, nDV, funcsIn, funcs, funcsSensIn, funcsSens,
          updCalls, updRet, sensCalls, sensRet, computeArgs>>
vars == <<obj, cached, ptSets, call, ctor, lastEval>>

\* evalFunctions was not called yet.
NoEval == [ret |-> <<>>, value |-> <<>>, again |-> FALSE]

\* The fields a class does not have.
Blank ==
    [cls |-> None, scaled |-> FALSE, divideByChord |-> FALSE, rho |-> 0,
     ksApproach |-> "", nCon |-> 0, nPoint |-> 0, coords |-> None,
     leTePts |-> None, coordsA |-> None, coordsB |-> None, D0 |-> None,
     dir_vec |-> None, ToC0 |-> None, max0 |-> None, teSlope0 |-> None,
     ptSets |-> None, ctor |-> None]

\* The state a constructor leaves: the object o, nothing called yet.
Constructed(o) ==
    /\ cls = o.cls /\ scaled = o.scaled /\ divideByChord = o.divideByChord
    /\ rho = o.rho /\ ksApproach = o.ksApproach
    /\ nCon = o.nCon /\ nPoint = o.nPoint
    /\ coords = o.coords /\ leTePts = o.leTePts
    /\ coordsA = o.coordsA /\ coordsB = o.coordsB
    /\ D0 = o.D0 /\ dir_vec = o.dir_vec /\ ToC0 = o.ToC0
    /\ max0 = o.max0 /\ teSlope0 = o.teSlope0
    /\ ptSets = o.ptSets /\ ctor = o.ctor
    /\ op = "none" /\ err = "none" /\ nDV = 0
    /\ funcsIn = None /\ funcs = None
    /\ funcsSensIn = None /\ funcsSens = None
    /\ updCalls = <<>> /\ updRet = <<>> /\ sensCalls = <<>> /\ sensRet = <<>>
    /\ computeArgs = <<>>
    /\ lastEval = NoEval

\* DVGeo.update returns the embedded points moved by the design variables:
\* one of the moved arrays of the class or, with the design variables at
\* their initial values, the points as they were embedded (ctor).

\* The driver calls one method at a time, and takes its result before the
\* next call.
Ready == op = "none"

\* evalFunctions(fin, config) returned, leaving the dictionary as fout,
\* after the DVGeo.update calls upd returned ret.
Evaluated(fin, fout, upd, ret) ==
    /\ op' = "evalFunctions" /\ err' = "none" /\ nDV' = 0
    /\ funcsIn' = fin /\ funcs' = fout /\ updCalls' = upd /\ updRet' = ret
    /\ funcsSensIn' = None /\ funcsSens' = None
    /\ sensCalls' = <<>> /\ sensRet' = <<>> /\ computeArgs' = <<>>
    /\ lastEval' = [ret |-> ret, value |-> fout[name], again |-> lastEval.ret = ret]

\* evalFunctionsSens(fin, config) ended with e, leaving the dictionary as
\* fout, after getNDV() returned ndv, the totalSensitivity calls sc returned
\* ret and self._compute was called on the arrays args.
DifferentiatedBy(fin, fout, ndv, sc, ret, e, args) ==
    /\ op' = "evalFunctionsSens" /\ err' = e /\ nDV' = ndv
    /\ funcsSensIn' = fin /\ funcsSens' = fout
    /\ sensCalls' = sc /\ sensRet' = ret /\ computeArgs' = args
    /\ lastEval' = lastEval
    /\ funcsIn' = None /\ funcs' = None /\ updCalls' = <<>> /\ updRet' = <<>>

\* The same, of a method that does not call self._compute.
Differentiated(fin, fout, ndv, sc, ret, e) ==
    DifferentiatedBy(fin, fout, ndv, sc, ret, e, <<>>)

(***************************************************************************)
(* ThicknessConstraint                                                     *)
(***************************************************************************)
\* Toothpicks at construction: along x (length 3), degenerate (length 0),
\* the diagonal (length 5).
ThicknessBase == << <<Px, P0>>, <<P0, P0>>, <<Pxy, P0>> >>
\* Toothpicks DVGeo.update returns: those, and one along y (length 4).
ThicknessCur == << <<Px, P0>>, <<Pxy, P0>>, <<P0, P0>>, <<Py, P0>> >>

\* __init__: the reference lengths
ThicknessD0(c, n) ==
    [k \in 1..n |-> euclideanNorm(VSub(At(c, 2 * (k - 1)), At(c, 2 * (k - 1) + 1)))]

\* A slip: the scaled flag is ignored.
ThicknessD_unscaled(c, n, sc, d0) ==
    [k \in 1..n |-> euclideanNorm(VSub(At(c, 2 * (k - 1)), At(c, 2 * (k - 1) + 1)))]

\* evalFunctions: the vector D
ThicknessD(c, n, sc, d0) ==
    [k \in 1..n |->
        LET D == euclideanNorm(VSub(At(c, 2 * (k - 1)), At(c, 2 * (k - 1) + 1)))
        IN  IF sc THEN Div(D, d0[k]) ELSE D]

\* A slip: every row carries the seed of its toothpick at every point.
ThicknessSeed_dense(c, n, sc, d0, i) ==
    [k \in 1..n |-> [p \in 1..Len(c) |->
        eDist_b(At(c, 2 * (k - 1)), At(c, 2 * (k - 1) + 1))[1]]]

\* evalFunctionsSens: the seed dTdPt, filled constraint by constraint
RECURSIVE ThicknessSeed(_, _, _, _, _)
ThicknessSeed(c, n, sc, d0, i) ==
    IF i = 0 THEN Zeros3(n, Len(c))
    ELSE LET b == eDist_b(At(c, 2 * (i - 1)), At(c, 2 * (i - 1) + 1))
             p1b == IF sc THEN VDivS(b[1], d0[i]) ELSE b[1]
             p2b == IF sc THEN VDivS(b[2], d0[i]) ELSE b[2]
             prev == ThicknessSeed(c, n, sc, d0, i - 1)
         IN  Set3(Set3(prev, i - 1, 2 * (i - 1), p1b), i - 1, 2 * (i - 1) + 1, p2b)

ThicknessConstraint_init ==
    \E n \in 0..MaxCon, odd \in BOOLEAN, sc \in BOOLEAN :
      \E a \in Arrays(ThicknessBase, n) :
        LET c == a \o Unpaired(odd) IN
        Constructed([Blank EXCEPT
            !.cls = "ThicknessConstraint",
            !.nCon = Len(c) \div 2,
            !.coords = c,
            !.scaled = sc,
            !.ptSets = [p \in {name} |-> Len(c)],
            !.D0 = ThicknessD0(c, Len(c) \div 2),
            !.ctor = [coords |-> c]])

\* DVGeo.update(name): the embedded points, moved.
ThicknessUpdate ==
    [len \in 0..(2 * MaxCon + 1) |->
        {a \o Unpaired(len % 2 = 1) : a \in Arrays(ThicknessCur, len \div 2)}]

ThicknessConstraint_evalFunctions ==
    /\ cls = "ThicknessConstraint" /\ Ready
    /\ \E c \in ThicknessUpdate[ptSets[name]] \cup {ctor.coords} :
        \E D \in {ThicknessD(c, nCon, scaled, D0)}, fin \in FuncsArgs :
            /\ coords' = c
            /\ Evaluated(fin, Put(fin, name, D), <<name>>, <<c>>)
    /\ UNCHANGED <<obj, leTePts, coordsA, coordsB, ptSets, ctor>>

\* A slip: the derivative is taken at the construction coordinates.
ThicknessSensCoords_ctor == ctor.coords

\* evalFunctionsSens: the coordinates it reads, self.coords
ThicknessSensCoords == coords

ThicknessConstraint_evalFunctionsSens ==
    /\ cls = "ThicknessConstraint" /\ Ready
    /\ \E ndv \in 0..MaxNDV :
        IF ndv > 0
        THEN \E dTdPt \in {ThicknessSeed(ThicknessSensCoords, nCon, scaled, D0, nCon)},
                fin \in FuncsSensArgs, ret \in SensDicts(1) :
                Differentiated(fin, Put(fin, name, ret), ndv,
                               <<<<dTdPt, name>>>>, <<ret>>, "none")
        ELSE \E fin \in FuncsSensArgs :
                Differentiated(fin, fin, ndv, <<>>, <<>>, "none")
    /\ UNCHANGED <<obj, cached, ptSets, ctor>>

(***************************************************************************)
(* ProjectedThicknessConstraint                                            *)
(***************************************************************************)
\* Toothpicks at construction: along x (length 3), the diagonal (length 5),
\* degenerate.
ProjectedBase == << <<Px, P0>>, <<Pxy, P0>>, <<P0, P0>> >>
\* Toothpicks DVGeo.update returns: along x, the same with its top moved
\* along y, reversed, and moved as a whole along y.
ProjectedCur == << <<Px, P0>>, <<Pxy, P0>>, <<P0, Px>>, <<Pxy, Py>> >>

\* __init__: the reference lengths
ProjectedD0(c, n) ==
    [k \in 1..n |-> euclideanNorm(VSub(At(c, 2 * (k - 1)), At(c, 2 * (k - 1) + 1)))]

\* __init__: the reference directions
ProjectedDirVec(c, n) ==
    [k \in 1..n |->
        LET vec == VSub(At(c, 2 * (k - 1)), At(c, 2 * (k - 1) + 1))
        IN  VDivS(vec, euclideanNorm(vec))]

\* A slip: the length of the toothpick, as in ThicknessConstraint.
ProjectedD_length(c, n, sc, d0, dv) ==
    [k \in 1..n |->
        LET D == euclideanNorm(VSub(At(c, 2 * (k - 1)), At(c, 2 * (k - 1) + 1)))
        IN  IF sc THEN Div(D, d0[k]) ELSE D]

\* evalFunctions: the vector D
ProjectedD(c, n, sc, d0, dv) ==
    [k \in 1..n |->
        LET vec == VSub(At(c, 2 * (k - 1)), At(c, 2 * (k - 1) + 1))
            D == Add(Add(Mul(vec[1], dv[k][1]), Mul(vec[2], dv[k][2])),
                     Mul(vec[3], dv[k][3]))
        IN  IF sc THEN Div(D, d0[k]) ELSE D]

\* evalFunctionsSens: the seed dTdPt, filled constraint by constraint
RECURSIVE ProjectedSeed(_, _, _, _, _, _)
ProjectedSeed(c, n, sc, d0, dv, i) ==
    IF i = 0 THEN Zeros3(n, Len(c))
    ELSE LET D_b == IF sc THEN Div(One, d0[i]) ELSE One
             vec_b == VScale(dv[i], D_b)
             prev == ProjectedSeed(c, n, sc, d0, dv, i - 1)
         IN  Set3(Set3(prev, i - 1, 2 * (i - 1), vec_b),
                  i - 1, 2 * (i - 1) + 1, VNeg(vec_b))

ProjectedThicknessConstraint_init ==
    \E n \in 0..MaxCon, odd \in BOOLEAN, sc \in BOOLEAN :
      \E a \in Arrays(ProjectedBase, n) :
        LET c == a \o Unpaired(odd) IN
        Constructed([Blank EXCEPT
            !.cls = "ProjectedThicknessConstraint",
            !.nCon = Len(c) \div 2,
            !.coords = c,
            !.scaled = sc,
            !.ptSets = [p \in {name} |-> Len(c)],
            !.D0 = ProjectedD0(c, Len(c) \div 2),
            !.dir_vec = ProjectedDirVec(c, Len(c) \div 2),
            !.ctor = [coords |-> c]])

\* DVGeo.update(name): the embedded points, moved.
ProjectedUpdate ==
    [len \in 0..(2 * MaxCon + 1) |->
        {a \o Unpaired(len % 2 = 1) : a \in Arrays(ProjectedCur, len \div 2)}]

ProjectedThicknessConstraint_evalFunctions ==
    /\ cls = "ProjectedThicknessConstraint" /\ Ready
    /\ \E c \in ProjectedUpdate[ptSets[name]] \cup {ctor.coords} :
        \E D \in {ProjectedD(c, nCon, scaled, D0, dir_vec)}, fin \in FuncsArgs :
            /\ coords' = c
            /\ Evaluated(fin, Put(fin, name, D), <<name>>, <<c>>)
    /\ UNCHANGED <<obj, leTePts, coordsA, coordsB, ptSets, ctor>>

ProjectedThicknessConstraint_evalFunctionsSens ==
    /\ cls = "ProjectedThicknessConstraint" /\ Ready
    /\ \E ndv \in 0..MaxNDV :
        IF ndv > 0
        THEN \E dTdPt \in {ProjectedSeed(coords, nCon, scaled, D0, dir_vec, nCon)},
                fin \in FuncsSensArgs, ret \in SensDicts(1) :
                Differentiated(fin, Put(fin, name, ret), ndv,
                               <<<<dTdPt, name>>>>, <<ret>>, "none")
        ELSE \E fin \in FuncsSensArgs :
                Differentiated(fin, fin, ndv, <<>>, <<>>, "none")
    /\ UNCHANGED <<obj, cached, ptSets, ctor>>

(***************************************************************************)
(* ThicknessToChordConstraint                                              *)
(***************************************************************************)
\* Groups <<top, bottom, leading, trailing>> at construction: t/c = 3/4,
\* 5/3, 0/4 and 3/0.
ToCBase ==
    << <<Px, P0, Py, P0>>, <<Pxy, P0, Px, P0>>, <<P0, P0, Py, P0>>,
       <<Px, P0, P0, P0>> >>
\* Groups DVGeo.update returns: t/c = 3/4, 5/4, 4/5, 0/3 and 4/0.
ToCCur ==
    << <<Px, P0, Py, P0>>, <<Pxy, P0, Pxy, Px>>, <<Py, P0, Pxy, P0>>,
       <<Px, Px, Px, P0>>, <<Py, P0, Px, Px>> >>
\* Trailing points that do not make up a group.
ToCRest(r) == SubSeq(<<Pxy, Px, Py>>, 1, r)

\* __init__: the reference ratios
ToCInit(c, n) ==
    [k \in 1..n |->
        LET t == linalgNorm(VSub(At(c, 4 * (k - 1)), At(c, 4 * (k - 1) + 1)))
            ch == linalgNorm(VSub(At(c, 4 * (k - 1) + 2), At(c, 4 * (k - 1) + 3)))
        IN  Div(t, ch)]

\* A slip: the ratio is not normalised by its reference value.
ToCEval_absolute(c, n, toc0) ==
    [k \in 1..n |->
        LET t == eDist(At(c, 4 * (k - 1)), At(c, 4 * (k - 1) + 1))
            ch == eDist(At(c, 4 * (k - 1) + 2), At(c, 4 * (k - 1) + 3))
        IN  Div(t, ch)]

\* evalFunctions: the vector ToC
ToCEval(c, n, toc0) ==
    [k \in 1..n |->
        LET t == eDist(At(c, 4 * (k - 1)), At(c, 4 * (k - 1) + 1))
            ch == eDist(At(c, 4 * (k - 1) + 2), At(c, 4 * (k - 1) + 3))
        IN  Div(Div(t, ch), toc0[k])]

\* evalFunctionsSens: the seed dToCdPt, filled constraint by constraint
RECURSIVE ToCSeed(_, _, _, _)
ToCSeed(c, n, toc0, i) ==
    IF i = 0 THEN Zeros3(n, Len(c))
    ELSE LET j == 4 * (i - 1)
             t == eDist(At(c, j), At(c, j + 1))
             ch == eDist(At(c, j + 2), At(c, j + 3))
             b12 == eDist_b(At(c, j), At(c, j + 1))
             b34 == eDist_b(At(c, j + 2), At(c, j + 3))
             s1 == VDivS(VDivS(b12[1], ch), toc0[i])
             s2 == VDivS(VDivS(b12[2], ch), toc0[i])
             s3 == VDivS(VDivS(VScale(VNeg(b34[1]), t), Mul(ch, ch)), toc0[i])
             s4 == VDivS(VDivS(VScale(VNeg(b34[2]), t), Mul(ch, ch)), toc0[i])
             prev == ToCSeed(c, n, toc0, i - 1)
         IN  Set3(Set3(Set3(Set3(prev, i - 1, j, s1), i - 1, j + 1, s2),
                       i - 1, j + 2, s3), i - 1, j + 3, s4)

ThicknessToChordConstraint_init ==
    \E n \in 0..MaxCon, r \in {0, 2} :
      \E a \in GroupArrays(ToCBase, n, 4) :
        LET c == a \o ToCRest(r) IN
        Constructed([Blank EXCEPT
            !.cls = "ThicknessToChordConstraint",
            !.nCon = Len(c) \div 4,
            !.coords = c,
            !.ptSets = [p \in {name} |-> Len(c)],
            !.ToC0 = ToCInit(c, Len(c) \div 4),
            !.ctor = [coords |-> c]])

\* DVGeo.update(name): the embedded points, moved.
ToCUpdate ==
    [len \in 0..(4 * MaxCon + 3) |->
        {a \o ToCRest(len % 4) : a \in GroupArrays(ToCCur, len \div 4, 4)}]

ThicknessToChordConstraint_evalFunctions ==
    /\ cls = "ThicknessToChordConstraint" /\ Ready
    /\ \E c \in ToCUpdate[ptSets[name]] \cup {ctor.coords} :
        \E ToC \in {ToCEval(c, nCon, ToC0)}, fin \in FuncsArgs :
            /\ coords' = c
            /\ Evaluated(fin, Put(fin, name, ToC), <<name>>, <<c>>)
    /\ UNCHANGED <<obj, leTePts, coordsA, coordsB, ptSets, ctor>>

ThicknessToChordConstraint_evalFunctionsSens ==
    /\ cls = "ThicknessToChordConstraint" /\ Ready
    /\ \E ndv \in 0..MaxNDV :
        IF ndv > 0
        THEN \E dToCdPt \in {ToCSeed(coords, nCon, ToC0, nCon)},
                fin \in FuncsSensArgs, ret \in SensDicts(1) :
                Differentiated(fin, Put(fin, name, ret), ndv,
                               <<<<dToCdPt, name>>>>, <<ret>>, "none")
        ELSE \E fin \in FuncsSensArgs :
                Differentiated(fin, fin, ndv, <<>>, <<>>, "none")
    /\ UNCHANGED <<obj, cached, ptSets, ctor>>

(***************************************************************************)
(* KSMaxThicknessToChordConstraint                                         *)
(***************************************************************************)
\* geo_utils.KSfunction.compute(g, rho, approach): the KS aggregate of the
\* vector g.  It is left uninterpreted: its value is the term made of its
\* arguments, so two KS values are equal iff their arguments are.
KSfunction_compute(g, r, approach) == <<g, r, approach>>

\* geo_utils.KSfunction.derivatives(g, rho, approach)[0], uninterpreted
\* likewise.
KSfunction_derivatives(g, r, approach) == <<g, r, approach>>

\* A scalar made of KS terms: the term a, or the quotient a / b.
Term(a) == [ks |-> a, over |-> <<>>]
Quotient(a, b) == [ks |-> a, over |-> <<b>>]

\* Toothpicks at construction: lengths 3 and 5.
KSMaxBase == << <<Px, P0>>, <<Pxy, P0>> >>
\* Toothpicks DVGeo.update returns: lengths 3, 4 and 0.
KSMaxCur == << <<Px, P0>>, <<Py, P0>>, <<P0, P0>> >>
\* Leading and trailing edge at construction (chord 4), and as
\* DVGeo.update returns them (chord 4, 5, 5) together with the toothpicks
\* starting at the same place of KSMaxCur: one deformed geometry serves both
\* update calls of an evaluation.
KSMaxLeTeBase == <<Py, P0>>
KSMaxLeTeCur == << <<Py, P0>>, <<Pxy, P0>>, <<Pxy, P0>> >>
\* rho and ksApproach
KSParams == {<<10, "discrete">>, <<50, "continuous">>}

\* A slip: the chord is divided by whatever divideByChord says.
KSMaxToC_always(c, lete, n, dbc) ==
    [k \in 1..n |->
        Div(eDist(At(c, 2 * (k - 1)), At(c, 2 * (k - 1) + 1)),
            eDist(At(lete, 0), At(lete, 1)))]

\* __init__, evalFunctions, evalFunctionsSens: the vector of t/c (or of t)
KSMaxToC(c, lete, n, dbc) ==
    [k \in 1..n |->
        LET t == eDist(At(c, 2 * (k - 1)), At(c, 2 * (k - 1) + 1))
            ch == eDist(At(lete, 0), At(lete, 1))
        IN  IF dbc THEN Div(t, ch) ELSE t]

\* A slip: the KS value is never normalised.
KSMaxValue_unscaled(ToC, r, approach, sc, m0) ==
    Term(KSfunction_compute(ToC, r, approach))

\* evalFunctions: the KS maximum, divided by max0 if scaled
KSMaxValue(ToC, r, approach, sc, m0) ==
    LET maxToC == KSfunction_compute(ToC, r, approach)
    IN  IF sc THEN Quotient(maxToC, m0) ELSE Term(maxToC)

\* evalFunctionsSens: dToCdCoords, shape (nPoint, 2, 3)
KSMaxdToCdCoords(c, lete, n, dbc) ==
    [k \in 1..n |->
        LET ch == eDist(At(lete, 0), At(lete, 1))
            b == eDist_b(At(c, 2 * (k - 1)), At(c, 2 * (k - 1) + 1))
        IN  IF dbc THEN <<VDivS(b[1], ch), VDivS(b[2], ch)>> ELSE <<b[1], b[2]>>]

\* evalFunctionsSens: dToCdLeTePts, shape (nPoint, 2, 3)
KSMaxdToCdLeTePts(c, lete, n, dbc) ==
    [k \in 1..n |->
        LET t == eDist(At(c, 2 * (k - 1)), At(c, 2 * (k - 1) + 1))
            ch == eDist(At(lete, 0), At(lete, 1))
            b == eDist_b(At(lete, 0), At(lete, 1))
        IN  IF dbc
            THEN <<VDivS(VScale(VNeg(b[1]), t), Mul(ch, ch)),
                   VDivS(VScale(VNeg(b[2]), t), Mul(ch, ch))>>
            ELSE <<Zero3, Zero3>>]

\* evalFunctionsSens: the seeds np.einsum("i,ijk->ijk", dKSdToC, d), reshaped
\* to (2 * nPoint, 3), and np.einsum("i,ijk->jk", dKSdToC, d); dKSdToC being
\* uninterpreted, a seed is the pair of its factors and the contraction.
KSMaxSeed(ToC, r, approach, sc, m0, d, contraction) ==
    LET dKSdToC == KSfunction_derivatives(ToC, r, approach)
    IN  [dKSdToC |-> IF sc THEN Quotient(dKSdToC, m0) ELSE Term(dKSdToC),
         d |-> d, einsum |-> contraction]

\* A slip that would repair lines 460-462: keys of either result, a missing
\* one counting as zero.
KSMaxTotal_union(tmp0, tmp1) ==
    [key \in DOMAIN tmp0 \cup DOMAIN tmp1 |->
        (IF key \in DOMAIN tmp0 THEN tmp0[key] ELSE 0)
        + (IF key \in DOMAIN tmp1 THEN tmp1[key] ELSE 0)]

\* A slip: only the toothpicks' contribution.
KSMaxTotal_first(tmp0, tmp1) == tmp0

\* evalFunctionsSens: tmpTotal, when every key of tmp0 is a key of tmp1
KSMaxTotal(tmp0, tmp1) ==
    [key \in DOMAIN tmp0 |-> tmp0[key] + tmp1[key]]

\* A slip: the toothpicks are addressed by the constraint's own name.
KSMaxCoordsName_plain == name

\* The names evalFunctions and evalFunctionsSens address the two point sets by
KSMaxCoordsName == name \o "_coords"
KSMaxLeTeName == name \o "_lete"

KSMaxThicknessToChordConstraint_init ==
    \E n \in 1..MaxCon, odd \in BOOLEAN, sc \in BOOLEAN, dbc \in BOOLEAN,
       par \in KSParams :
      \E a \in Arrays(KSMaxBase, n) :
        LET c == a \o Unpaired(odd)
            lete == KSMaxLeTeBase
            toc0 == KSMaxToC(c, lete, Len(c) \div 2, dbc)
        IN
        Constructed([Blank EXCEPT
            !.cls = "KSMaxThicknessToChordConstraint",
            !.nPoint = Len(c) \div 2,
            !.nCon = 1,
            !.coords = c,
            !.leTePts = lete,
            !.scaled = sc,
            !.rho = par[1],
            !.ksApproach = par[2],
            !.divideByChord = dbc,
            !.ptSets = [p \in {name \o "_coords", name \o "_lete"} |->
                            IF p = name \o "_coords" THEN Len(c) ELSE 2],
            !.ToC0 = toc0,
            !.max0 = KSfunction_compute(toc0, par[1], par[2]),
            !.ctor = [coords |-> c, lePt |-> lete[1], tePt |-> lete[2],
                      rho |-> par[1], ksApproach |-> par[2]]])

\* DVGeo.update(name_coords) and DVGeo.update(name_lete): the embedded
\* toothpicks and edge points, moved.
KSMaxUpdate ==
    [len \in 0..(2 * MaxCon + 1) |->
        {<<Rot(KSMaxCur, g, len \div 2) \o Unpaired(len % 2 = 1), KSMaxLeTeCur[g + 1]>> :
            g \in 0..(Len(KSMaxCur) - 1)}]

KSMaxThicknessToChordConstraint_evalFunctions ==
    /\ cls = "KSMaxThicknessToChordConstraint" /\ Ready
    /\ \E u \in KSMaxUpdate[Len(coords)]
                \cup {<<ctor.coords, <<ctor.lePt, ctor.tePt>>>>} :
        \E v \in {KSMaxValue(KSMaxToC(u[1], u[2], nPoint, divideByChord),
                             rho, ksApproach, scaled, max0)},
           fin \in FuncsArgs :
            /\ coords' = u[1]
            /\ leTePts' = u[2]
            /\ Evaluated(fin, Put(fin, name, v),
                         <<KSMaxCoordsName, KSMaxLeTeName>>, u)
    /\ UNCHANGED <<obj, coordsA, coordsB, ptSets, ctor>>

KSMaxThicknessToChordConstraint_evalFunctionsSens ==
    /\ cls = "KSMaxThicknessToChordConstraint" /\ Ready
    /\ \E ndv \in 0..MaxNDV :
        IF ndv > 0
        THEN \E sc \in {LET ToC == KSMaxToC(coords, leTePts, nPoint, divideByChord)
                        IN  << <<KSMaxSeed(ToC, rho, ksApproach, scaled, max0,
                                    KSMaxdToCdCoords(coords, leTePts, nPoint, divideByChord),
                                    "i,ijk->ijk"),
                                 KSMaxCoordsName>>,
                               <<KSMaxSeed(ToC, rho, ksApproach, scaled, max0,
                                    KSMaxdToCdLeTePts(coords, leTePts, nPoint, divideByChord),
                                    "i,ijk->jk"),
                                 KSMaxLeTeName>> >>},
                fin \in FuncsSensArgs,
                tmp0 \in SensDicts(1), tmp1 \in SensDicts(2) :
                IF DOMAIN tmp0 \subseteq DOMAIN tmp1
                THEN Differentiated(fin, Put(fin, name, KSMaxTotal(tmp0, tmp1)),
                                    ndv, sc, <<tmp0, tmp1>>, "none")
                ELSE \* tmp1[key] raises KeyError
                     Differentiated(fin, fin, ndv, sc, <<tmp0, tmp1>>, "KeyError")
        ELSE \E fin \in FuncsSensArgs :
                Differentiated(fin, fin, ndv, <<>>, <<>>, "none")
    /\ UNCHANGED <<obj, cached, ptSets, ctor>>

(***************************************************************************)
(* TESlopeConstraint                                                       *)
(*                                                                         *)
(* _compute runs on real and on complex arrays.  A complex number x + i y  *)
(* whose imaginary part is the complex step (1e-40 times a factor) is the  *)
(* pair <<x, y / 1e-40>>: products of two imaginary parts are below the    *)
(* rounding of the real part and vanish, so the arithmetic is that of dual *)
(* numbers as long as no square root is taken of a number whose real part  *)
(* is zero.  The inputs keep to that: every toothpick has a positive       *)
(* thickness and consecutive midpoints differ.  A real number x is         *)
(* <<x, Zero>>.                                                            *)
(***************************************************************************)
Cx(x) == <<x, Zero>>
Re(a) == a[1]
Im(a) == a[2]
CAdd(a, b) == <<Add(a[1], b[1]), Add(a[2], b[2])>>
CSub(a, b) == <<Sub(a[1], b[1]), Sub(a[2], b[2])>>
CMul(a, b) == <<Mul(a[1], b[1]), Add(Mul(a[1], b[2]), Mul(a[2], b[1]))>>
CDiv(a, b) ==
    <<Div(a[1], b[1]),
      Div(Sub(Mul(a[2], b[1]), Mul(a[1], b[2])), Mul(b[1], b[1]))>>
CSqrt(a) ==
    IF a[2] = Zero THEN <<Sqrt(a[1]), Zero>>
    ELSE <<Sqrt(a[1]), Div(a[2], Mul(Rat(2), Sqrt(a[1])))>>

\* Points with complex components
CPt(p) == <<Cx(p[1]), Cx(p[2]), Cx(p[3])>>
CVAdd(p, q) == <<CAdd(p[1], q[1]), CAdd(p[2], q[2]), CAdd(p[3], q[3])>>
CVSub(p, q) == <<CSub(p[1], q[1]), CSub(p[2], q[2]), CSub(p[3], q[3])>>
CVHalf(p) == <<CDiv(p[1], Cx(Rat(2))), CDiv(p[2], Cx(Rat(2))), CDiv(p[3], Cx(Rat(2)))>>
\* np.sqrt(np.sum(v * v)): the complex-safe euclidean norm
CNorm(v) == CSqrt(CAdd(CAdd(CMul(v[1], v[1]), CMul(v[2], v[2])), CMul(v[3], v[3])))
\* Storing a complex point in a real array discards the imaginary parts.
RealPart(p) == <<Cx(Re(p[1])), Cx(Re(p[2])), Cx(Re(p[3]))>>

\* self.coords.astype("D")
AsComplex(c) == [i \in 1..Len(c) |-> CPt(c[i])]

\* coords[i, j] += step_imag  (0-based i, j)
Perturbed(cc, i, j) ==
    [cc EXCEPT ![i + 1][j + 1] = CAdd(@, <<Zero, One>>)]

\* Midpoints of toothpicks at construction and thicknesses there: the points
\* (0,0,0), (3,4,0), (6,0,0) with thicknesses 2, 4, 10.
TESlopeBase ==
    << <<Pt(0, 0, 1), Pt(0, 0, -1)>>, <<Pt(3, 4, 2), Pt(3, 4, -2)>>,
       <<Pt(9, 4, 0), Pt(3, -4, 0)>> >>
\* Toothpicks DVGeo.update returns: midpoints (0,0,0), (3,-4,0), (6,0,0),
\* thicknesses 2, 4, 6.
TESlopeCur ==
    << <<Pt(0, 0, 1), Pt(0, 0, -1)>>, <<Pt(3, -4, 2), Pt(3, -4, -2)>>,
       <<Pt(6, 0, 3), Pt(6, 0, -3)>> >>
\* The trailing edge point at construction, and as DVGeo.update returns it
\* together with the toothpicks starting at the same place of TESlopeCur.
TESlopeTEBase == Px
TESlopeTECur == <<Px, Pxy, Pxy>>

\* _compute: xMid, real, nCon + 1 points
TESlopeXMid(cc, n) ==
    [m \in 1..(n + 1) |->
        IF m <= n
        THEN LET top == At(cc, 2 * (m - 1))
                 bottom == At(cc, 2 * (m - 1) + 1)
             IN  RealPart(CVAdd(bottom, CVHalf(CVSub(top, bottom))))
        ELSE RealPart(cc[Len(cc)])]

\* _compute: np.flip(np.cumsum(np.flip(chords)))[k - 1], the arc length from
\* midpoint k to the trailing edge, summed from the trailing edge
RECURSIVE TESlopeArc(_, _, _)
TESlopeArc(xMid, n, k) ==
    IF k > n THEN Cx(Zero)
    ELSE CAdd(TESlopeArc(xMid, n, k + 1), CNorm(CVSub(xMid[k], xMid[k + 1])))

\* A slip: the chord from each toothpick to the next one only.
TESlopeCompute_chord(cc, n, sc, ts0) ==
    LET xMid == TESlopeXMid(cc, n)
    IN  [k \in 1..n |->
            LET t == CNorm(CVSub(At(cc, 2 * (k - 1)), At(cc, 2 * (k - 1) + 1)))
                teSlope == CDiv(t, CNorm(CVSub(xMid[k], xMid[k + 1])))
            IN  IF sc THEN CDiv(teSlope, Cx(ts0[k])) ELSE teSlope]

\* _compute(coords, scaled)
TESlopeCompute(cc, n, sc, ts0) ==
    LET xMid == TESlopeXMid(cc, n)
    IN  [k \in 1..n |->
            LET t == CNorm(CVSub(At(cc, 2 * (k - 1)), At(cc, 2 * (k - 1) + 1)))
                teSlope == CDiv(t, TESlopeArc(xMid, n, k))
            IN  IF sc THEN CDiv(teSlope, Cx(ts0[k])) ELSE teSlope]

\* A slip: the division is done in place on the baseline.
TESlopeBaselineAfter_inPlace(ts0, teSlope) == teSlope

\* _compute: self.teSlope0 after teSlope /= self.teSlope0, an in-place
\* division of the new array teSlope
TESlopeBaselineAfter(ts0, teSlope) == ts0

\* The real array _compute returns for real coordinates
TESlopeReal(c, n, sc, ts0) ==
    LET v == TESlopeCompute(AsComplex(c), n, sc, ts0)
    IN  [k \in 1..n |-> Re(v[k])]

\* A slip: the step is left on the component.
Restored_kept(cc, i, j) == cc

\* coords[i, j] -= step_imag  (0-based i, j)
Restored(cc, i, j) ==
    [cc EXCEPT ![i + 1][j + 1] = CSub(@, <<Zero, One>>)]

\* evalFunctionsSens: the double loop over the points i and the components
\* j, from its pass number idx = 3 i + j on, working on the complex copy
\* work: the arrays _compute was called on so far are seen and what it
\* returned for them conVal.
RECURSIVE TESlopeLoop(_, _, _, _, _, _, _)
TESlopeLoop(work, n, sc, ts0, idx, seen, conVal) ==
    IF idx >= 3 * Len(work) THEN [seen |-> seen, conVal |-> conVal, coords |-> work]
    ELSE LET i == idx \div 3
             j == idx % 3
             stepped == Perturbed(work, i, j)
         IN  TESlopeLoop(Restored(stepped, i, j), n, sc, ts0, idx + 1,
                         Append(seen, stepped),
                         Append(conVal, TESlopeCompute(stepped, n, sc, ts0)))

\* evalFunctionsSens: the run of the loop on self.coords.astype("D")
TESlopeSens(c, n, sc, ts0) ==
    TESlopeLoop(AsComplex(c), n, sc, ts0, 0, <<>>, <<>>)

\* evalFunctionsSens: dTeSlopePt, shape (nCon, nCoords, 3), from what the
\* passes of the loop returned: dTeSlopePt[:, i, j] = conVal.imag / step_real
TESlopeSeedOf(conVal, n, nCoords) ==
    [k \in 1..n |-> [i \in 1..nCoords |-> [j \in 1..3 |->
        Im(conVal[3 * (i - 1) + j][k])]]]

TESlopeSeed(c, n, sc, ts0) ==
    TESlopeSeedOf(TESlopeSens(c, n, sc, ts0).conVal, n, Len(c))

TESlopeConstraint_init ==
    \E n \in 0..MaxCon, sc \in BOOLEAN :
      \E a \in Arrays(TESlopeBase, n) :
        LET c == a \o <<TESlopeTEBase>> IN
        Constructed([Blank EXCEPT
            !.cls = "TESlopeConstraint",
            !.nCon = (Len(c) - 1) \div 2,
            !.coords = c,
            !.scaled = sc,
            !.ptSets = [p \in {name} |-> Len(c)],
            !.teSlope0 = TESlopeReal(c, (Len(c) - 1) \div 2, FALSE, None),
            !.ctor = [coords |-> c]])

\* DVGeo.update(name): the embedded points, moved.
TESlopeUpdate ==
    [len \in 0..(2 * MaxCon + 1) |->
        {Rot(TESlopeCur, g, len \div 2) \o <<TESlopeTECur[g + 1]>> :
            g \in 0..(Len(TESlopeCur) - 1)}]

TESlopeConstraint_evalFunctions ==
    /\ cls = "TESlopeConstraint" /\ Ready
    /\ \E c \in TESlopeUpdate[ptSets[name]] \cup {ctor.coords} :
        \E teSlope \in {TESlopeReal(c, nCon, scaled, teSlope0)}, fin \in FuncsArgs :
            /\ coords' = c
            /\ teSlope0' = IF scaled THEN TESlopeBaselineAfter(teSlope0, teSlope)
                           ELSE teSlope0
            /\ Evaluated(fin, Put(fin, name, teSlope), <<name>>, <<c>>)
    /\ UNCHANGED <<cls, scaled, divideByChord, rho, ksApproach, nCon, nPoint,
                   D0, dir_vec, ToC0, max0>>
    /\ UNCHANGED <<leTePts, coordsA, coordsB, ptSets, ctor>>

TESlopeConstraint_evalFunctionsSens ==
    /\ cls = "TESlopeConstraint" /\ Ready
    /\ \E ndv \in 0..MaxNDV :
        IF ndv > 0
        THEN \E run \in {TESlopeSens(coords, nCon, scaled, teSlope0)} :
             \E dTeSlopePt \in {TESlopeSeedOf(run.conVal, nCon, Len(coords))},
                fin \in FuncsSensArgs, ret \in SensDicts(1) :
                DifferentiatedBy(fin, Put(fin, name, ret), ndv,
                                 <<<<dTeSlopePt, name>>>>, <<ret>>, "none",
                                 run.seen)
        ELSE \E fin \in FuncsSensArgs :
                Differentiated(fin, fin, ndv, <<>>, <<>>, "none")
    /\ UNCHANGED <<obj, cached, ptSets, ctor>>

(***************************************************************************)
(* ProximityConstraint                                                     *)
(***************************************************************************)
\* Pairs <<point of A, point of B>> at construction: 3 apart, coincident,
\* 5 apart.
ProximityBase == << <<Px, P0>>, <<P0, P0>>, <<Pxy, P0>> >>
\* Pairs as DVGeo.update returns them: those, and one 4 apart.
ProximityCur == << <<Px, P0>>, <<Pxy, P0>>, <<P0, P0>>, <<Py, P0>> >>

\* The n points of side w (1 for A, 2 for B) of the pairs taken in order
\* from the cyclic list L, starting at its element s.
Side(L, s, n, w) == [k \in 1..n |-> L[((s + k - 1) % Len(L)) + 1][w]]

ProximityNameA == name \o "_A"
ProximityNameB == name \o "_B"

\* __init__: the reference lengths
ProximityD0(cA, cB, n) ==
    [k \in 1..n |-> euclideanNorm(VSub(cA[k], cB[k]))]

\* A slip: the distances are divided by the reference lengths whatever
\* scaled says.
ProximityD_always(cA, cB, n, sc, d0) ==
    [k \in 1..n |-> Div(euclideanNorm(VSub(cA[k], cB[k])), d0[k])]

\* evalFunctions: the vector D
ProximityD(cA, cB, n, sc, d0) ==
    [k \in 1..n |->
        LET D == euclideanNorm(VSub(cA[k], cB[k]))
        IN  IF sc THEN Div(D, d0[k]) ELSE D]

\* evalFunctionsSens: the seeds <<dTdPtA, dTdPtB>>, each of shape
\* (nCon, nCon, 3)
ProximitySeed(cA, cB, n, sc, d0) ==
    LET b(i) == eDist_b(cA[i], cB[i])
        pAb(i) == IF sc THEN VDivS(b(i)[1], d0[i]) ELSE b(i)[1]
        pBb(i) == IF sc THEN VDivS(b(i)[2], d0[i]) ELSE b(i)[2]
    IN  << [i \in 1..n |-> [j \in 1..n |-> IF j = i THEN pAb(i) ELSE Zero3]],
           [i \in 1..n |-> [j \in 1..n |-> IF j = i THEN pBb(i) ELSE Zero3]] >>

\* A slip: the merge of KSMaxThicknessToChordConstraint, over the keys of
\* the first result only.
ProximityTotal_first(funcSensA, funcSensB) ==
    [key \in DOMAIN funcSensA |->
        IF key \in DOMAIN funcSensB THEN funcSensA[key] + funcSensB[key]
        ELSE funcSensA[key]]

\* evalFunctionsSens: the dictionary built from the two results, every
\* entry of A first, then every entry of B added to it or put beside it
ProximityTotal(funcSensA, funcSensB) ==
    LET fromA == [key \in DOMAIN funcSensA |-> funcSensA[key]]
    IN  [key \in DOMAIN fromA \cup DOMAIN funcSensB |->
            IF key \notin DOMAIN funcSensB THEN fromA[key]
            ELSE IF key \in DOMAIN fromA THEN fromA[key] + funcSensB[key]
            ELSE funcSensB[key]]

ProximityConstraint_init ==
    \E n \in 0..MaxCon, sc \in BOOLEAN, s \in 0..(Len(ProximityBase) - 1) :
        LET cA == Side(ProximityBase, s, n, 1)
            cB == Side(ProximityBase, s, n, 2)
        IN  Constructed([Blank EXCEPT
                !.cls = "ProximityConstraint",
                !.nCon = Len(cA),
                !.coordsA = cA,
                !.coordsB = cB,
                !.scaled = sc,
                !.ptSets = [p \in {ProximityNameA, ProximityNameB} |->
                               IF p = ProximityNameA THEN Len(cA) ELSE Len(cB)],
                !.D0 = ProximityD0(cA, cB, Len(cA)),
                !.ctor = [coordsA |-> cA, coordsB |-> cB]])

\* DVGeo.update(name_A) and DVGeo.update(name_B): the embedded points of the
\* two sets, moved by the same deformation.
ProximityUpdate ==
    [len \in 0..(MaxCon + 1) |->
        {<<Side(ProximityCur, g, len, 1), Side(ProximityCur, g, len, 2)>> :
            g \in 0..(Len(ProximityCur) - 1)}]

ProximityConstraint_evalFunctions ==
    /\ cls = "ProximityConstraint" /\ Ready
    /\ \E c \in ProximityUpdate[ptSets[ProximityNameA]]
                \cup {<<ctor.coordsA, ctor.coordsB>>} :
        \E D \in {ProximityD(c[1], c[2], nCon, scaled, D0)}, fin \in FuncsArgs :
            /\ coordsA' = c[1]
            /\ coordsB' = c[2]
            /\ Evaluated(fin, Put(fin, name, D),
                         <<ProximityNameA, ProximityNameB>>, c)
    /\ UNCHANGED <<obj, coords, leTePts, ptSets, ctor>>

ProximityConstraint_evalFunctionsSens ==
    /\ cls = "ProximityConstraint" /\ Ready
    /\ \E ndv \in 0..MaxNDV :
        IF ndv > 0
        THEN \E sd \in {ProximitySeed(coordsA, coordsB, nCon, scaled, D0)},
                fin \in FuncsSensArgs,
                funcSensA \in SensDicts(1), funcSensB \in SensDicts(2) :
                Differentiated(fin, Put(fin, name, ProximityTotal(funcSensA, funcSensB)),
                               ndv,
                               <<<<sd[1], ProximityNameA>>, <<sd[2], ProximityNameB>>>>,
                               <<funcSensA, funcSensB>>, "none")
        ELSE \E fin \in FuncsSensArgs :
                Differentiated(fin, fin, ndv, <<>>, <<>>, "none")
    /\ UNCHANGED <<obj, cached, ptSets, ctor>>

(***************************************************************************)
(* The optimizer driver                                                    *)
(***************************************************************************)
\* The driver takes what the call produced; the dictionaries are its own and
\* the next call gets the ones it passes then.
Driver_consume ==
    /\ op # "none"
    /\ op' = "none" /\ err' = "none" /\ nDV' = 0
    /\ funcsIn' = None /\ funcs' = None
    /\ funcsSensIn' = None /\ funcsSens' = None
    /\ updCalls' = <<>> /\ updRet' = <<>> /\ sensCalls' = <<>> /\ sensRet' = <<>>
    /\ computeArgs' = <<>>
    /\ UNCHANGED <<obj, cached, ptSets, ctor, lastEval>>

(***************************************************************************)
(* The program                                                             *)
(***************************************************************************)
Init ==
    \/ ThicknessConstraint_init
    \/ ProjectedThicknessConstraint_init
    \/ ThicknessToChordConstraint_init
    \/ KSMaxThicknessToChordConstraint_init
    \/ TESlopeConstraint_init
    \/ ProximityConstraint_init

Next ==
    \/ ThicknessConstraint_evalFunctions
    \/ ThicknessConstraint_evalFunctionsSens
    \/ ProjectedThicknessConstraint_evalFunctions
    \/ ProjectedThicknessConstraint_evalFunctionsSens
    \/ ThicknessToChordConstraint_evalFunctions
    \/ ThicknessToChordConstraint_evalFunctionsSens
    \/ KSMaxThicknessToChordConstraint_evalFunctions
    \/ KSMaxThicknessToChordConstraint_evalFunctionsSens
    \/ TESlopeConstraint_evalFunctions
    \/ TESlopeConstraint_evalFunctionsSens
    \/ ProximityConstraint_evalFunctions
    \/ ProximityConstraint_evalFunctionsSens
    \/ Driver_consume

Spec == Init /\ [][Next]_vars

(***************************************************************************)
(* Properties                                                              *)
(***************************************************************************)
\* The call left every key of the dictionary other than `name` as passed.
OthersKept(din, dout) ==
    /\ DOMAIN dout = DOMAIN din \cup {name}
    /\ \A k \in DOMAIN din \ {name} : dout[k] = din[k]

\* C1: ThicknessConstraint.evalFunctions stores under funcs[name] a vector of
\* len(coords) // 2 entries; entry i is the distance between points 2i and
\* 2i+1 of the coordinates DVGeo.update(name) just returned, divided by the
\* distance between the same points of the construction coordinates iff
\* scaled; every other key of funcs is as the caller passed it.
C1_ThicknessEval ==
    (cls = "ThicknessConstraint" /\ op = "evalFunctions") =>
        LET c == updRet[1]
            c0 == ctor.coords
        IN  /\ updCalls = <<name>>
            /\ OthersKept(funcsIn, funcs)
            /\ Len(funcs[name]) = Len(c0) \div 2
            /\ \A i \in 0..(Len(c0) \div 2 - 1) :
                 At(funcs[name], i) =
                    IF scaled
                    THEN Div(eDist(At(c, 2 * i), At(c, 2 * i + 1)),
                             eDist(At(c0, 2 * i), At(c0, 2 * i + 1)))
                    ELSE eDist(At(c, 2 * i), At(c, 2 * i + 1))

\* C1 witness: a scaled evaluation of two toothpicks, the first grown from
\* length 3 to length 5, the dictionary holding another constraint's entry.
C1_Witness ==
    /\ cls = "ThicknessConstraint" /\ op = "evalFunctions" /\ scaled
    /\ nCon = 2 /\ Len(coords) = 5
    /\ At(funcs[name], 0) = <<5, 3>>
    /\ "other" \in DOMAIN funcs /\ name \notin DOMAIN funcsIn

Dot(u, v) == Add(Add(Mul(u[1], v[1]), Mul(u[2], v[2])), Mul(u[3], v[3]))
IsNegative(a) == a[1] < 0

\* C2: ProjectedThicknessConstraint.evalFunctions stores, for every
\* constraint i, the dot product of the returned coords[2i] - coords[2i+1]
\* with the unit vector along the same difference of the construction
\* coordinates, divided by that difference's length iff scaled.  Hence, for a
\* toothpick of non-zero construction length: a change of the difference
\* perpendicular to the construction direction leaves the construction-time
\* value (the length, or 1 if scaled), and a difference pointing against the
\* construction direction gives a negative value.
C2_ProjectedEval ==
    (cls = "ProjectedThicknessConstraint" /\ op = "evalFunctions") =>
        LET c == updRet[1]
            c0 == ctor.coords
        IN  /\ Len(funcs[name]) = Len(c0) \div 2
            /\ \A i \in 0..(Len(c0) \div 2 - 1) :
                 LET vec == VSub(At(c, 2 * i), At(c, 2 * i + 1))
                     vec0 == VSub(At(c0, 2 * i), At(c0, 2 * i + 1))
                     len0 == euclideanNorm(vec0)
                     proj == Dot(vec, VDivS(vec0, len0))
                     val == At(funcs[name], i)
                 IN  /\ val = IF scaled THEN Div(proj, len0) ELSE proj
                     /\ (len0 # Zero /\ Dot(VSub(vec, vec0), vec0) = Zero)
                            => val = IF scaled THEN One ELSE len0
                     /\ (len0 # Zero /\ IsNegative(Dot(vec, vec0)))
                            => IsNegative(val)

\* C2 witness: two toothpicks, the first one built along x with length 3 and
\* returned with its top moved along y (its length is then 5, its projected
\* thickness still 3), the second one built along the diagonal and returned
\* reversed along x (projected thickness -9/5).
C2_Witness ==
    /\ cls = "ProjectedThicknessConstraint" /\ op = "evalFunctions" /\ ~scaled
    /\ nCon = 2
    /\ At(ctor.coords, 0) = Px /\ At(ctor.coords, 1) = P0
    /\ At(coords, 0) = Pxy /\ At(coords, 1) = P0
    /\ At(funcs[name], 0) = Rat(3)
    /\ At(funcs[name], 1) = <<-9, 5>>

\* C4: ThicknessToChordConstraint.evalFunctions stores under funcs[name] a
\* vector of len(coords) // 4 entries; entry i is (t/c) / ToC0[i], t the
\* distance of the returned points 4i, 4i+1, c that of 4i+2, 4i+3, ToC0[i]
\* the same ratio of the construction coordinates; there is no unscaled mode.
C4_ToCEval ==
    (cls = "ThicknessToChordConstraint" /\ op = "evalFunctions") =>
        LET c == updRet[1]
            c0 == ctor.coords
            Ratio(x, i) == Div(eDist(At(x, 4 * i), At(x, 4 * i + 1)),
                               eDist(At(x, 4 * i + 2), At(x, 4 * i + 3)))
        IN  /\ updCalls = <<name>>
            /\ OthersKept(funcsIn, funcs)
            /\ Len(funcs[name]) = Len(c0) \div 4
            /\ \A i \in 0..(Len(c0) \div 4 - 1) :
                 /\ ToC0[i + 1] = Ratio(c0, i)
                 /\ At(funcs[name], i) = Div(Ratio(c, i), Ratio(c0, i))

\* C4 witness: two groups and two trailing points; the first ratio goes from
\* 3/4 to 5/4 (value 5/3), the second from 5/3 to 4/5 (value 12/25).
C4_Witness ==
    /\ cls = "ThicknessToChordConstraint" /\ op = "evalFunctions"
    /\ nCon = 2 /\ Len(coords) = 10
    /\ ToC0 = << <<3, 4>>, <<5, 3>> >>
    /\ funcs[name] = << <<5, 3>>, <<12, 25>> >>

\* The KS scalar the constraint is to store: the KS aggregate of g with the
\* construction-time rho and ksApproach, over that of g0 iff scaled.
KSScalar(g, g0) ==
    IF scaled
    THEN Quotient(KSfunction_compute(g, ctor.rho, ctor.ksApproach),
                  KSfunction_compute(g0, ctor.rho, ctor.ksApproach))
    ELSE Term(KSfunction_compute(g, ctor.rho, ctor.ksApproach))

\* The thickness of toothpick i of the array x, the chord between le and te.
Thick(x, i) == eDist(At(x, 2 * i), At(x, 2 * i + 1))

Leq(a, b) == a[1] * b[2] <= b[1] * a[2]

\* The point halfway between p and q.
Midpoint(p, q) ==
    <<Div(Add(p[1], q[1]), Rat(2)), Div(Add(p[2], q[2]), Rat(2)),
      Div(Add(p[3], q[3]), Rat(2))>>

\* xMid[m] of the array x holding n toothpicks and the trailing edge point:
\* the midpoint of toothpick m, the trailing edge point for m = n.
XMid(x, n, m) ==
    IF m < n THEN Midpoint(At(x, 2 * m), At(x, 2 * m + 1)) ELSE At(x, Len(x) - 1)

\* The chord arc length from toothpick k to the trailing edge: the sum over
\* m = k..n-1 of the distance between xMid[m] and xMid[m+1].
RECURSIVE ArcLength(_, _, _)
ArcLength(x, n, k) ==
    IF k >= n THEN Zero
    ELSE Add(eDist(XMid(x, n, k), XMid(x, n, k + 1)), ArcLength(x, n, k + 1))

\* Thickness of toothpick k over its chord arc length.
Slope(x, n, k) == Div(Thick(x, k), ArcLength(x, n, k))

\* C5 as stated: the values TESlopeConstraint._compute returns, which
\* evalFunctions stores under funcs[name], are (len(coords) - 1) // 2 many and
\* value k is the thickness of toothpick k over the chord arc length from
\* toothpick k to the trailing edge point; the arc length is non-increasing
\* in k.
C5_Original ==
    (cls = "TESlopeConstraint" /\ op = "evalFunctions") =>
        LET c == updRet[1]
            n == (Len(c) - 1) \div 2
        IN  /\ Len(funcs[name]) = n
            /\ \A k \in 0..(n - 1) : At(funcs[name], k) = Slope(c, n, k)
            /\ \A k \in 0..(n - 2) : Leq(ArcLength(c, n, k + 1), ArcLength(c, n, k))

\* C5, amended: _compute(coords, scaled=False), which the constructor stores
\* as teSlope0, returns those values; _compute(coords, scaled=True), which
\* evalFunctions calls iff the constraint is scaled, returns each of them
\* divided by teSlope0[k].  The arc length is non-increasing in k.
C5_TESlopeCompute ==
    cls = "TESlopeConstraint" =>
        LET c0 == ctor.coords
            n == (Len(c0) - 1) \div 2
        IN  /\ nCon = n
            /\ Len(teSlope0) = n
            /\ \A k \in 0..(n - 1) : At(teSlope0, k) = Slope(c0, n, k)
            /\ \A k \in 0..(n - 2) : Leq(ArcLength(c0, n, k + 1), ArcLength(c0, n, k))
            /\ op = "evalFunctions" =>
                LET c == updRet[1] IN
                /\ Len(funcs[name]) = n
                /\ \A k \in 0..(n - 1) :
                     At(funcs[name], k) =
                        IF scaled THEN Div(Slope(c, n, k), Slope(c0, n, k))
                        ELSE Slope(c, n, k)
                /\ \A k \in 0..(n - 2) :
                     Leq(ArcLength(c, n, k + 1), ArcLength(c, n, k))

\* C5 witness: a scaled evaluation of two toothpicks built with thicknesses
\* 2, 4 and arc lengths 9, 4 (slopes 2/9, 1) and returned with thicknesses
\* 4, 6 and arc lengths 10, 5 (slopes 2/5, 6/5).
C5_Witness ==
    /\ cls = "TESlopeConstraint" /\ op = "evalFunctions" /\ scaled
    /\ nCon = 2
    /\ teSlope0 = << <<2, 9>>, <<1, 1>> >>
    /\ ArcLength(coords, 2, 0) = Rat(10) /\ ArcLength(coords, 2, 1) = Rat(5)
    /\ funcs[name] = << <<9, 5>>, <<6, 5>> >>

\* Value k of the constraint at complex coordinates cc, every intermediate
\* quantity complex: the thickness, the midpoints, the trailing edge point and
\* the arc length.
CXMid(cc, n, m) ==
    IF m < n
    THEN CVHalf(CVAdd(At(cc, 2 * m), At(cc, 2 * m + 1)))
    ELSE At(cc, Len(cc) - 1)
RECURSIVE CArcLength(_, _, _)
CArcLength(cc, n, k) ==
    IF k >= n THEN Cx(Zero)
    ELSE CAdd(CNorm(CVSub(CXMid(cc, n, k), CXMid(cc, n, k + 1))),
              CArcLength(cc, n, k + 1))
CSlope(cc, n, k) ==
    LET v == CDiv(CNorm(CVSub(At(cc, 2 * k), At(cc, 2 * k + 1))), CArcLength(cc, n, k))
    IN  IF scaled THEN CDiv(v, Cx(At(teSlope0, k))) ELSE v

\* C6 as stated: the seed TESlopeConstraint.evalFunctionsSens hands to
\* DVGeo.totalSensitivity holds, at [k, i, j], the derivative of value k of
\* evalFunctions with respect to coords[i, j], the dependence through the
\* thickness and the dependence through the chord arc length (midpoints
\* downstream of k, trailing edge point) alike.
C6_TESlopeSens ==
    (cls = "TESlopeConstraint" /\ op = "evalFunctionsSens" /\ nDV > 0) =>
        LET dTeSlopePt == sensCalls[1][1]
            n == (Len(coords) - 1) \div 2
        IN  \A k \in 0..(n - 1), i \in 0..(Len(coords) - 1), j \in 0..2 :
                At(At(At(dTeSlopePt, k), i), j) =
                    Im(CSlope(Perturbed(AsComplex(coords), i, j), n, k))

\* The names the constructor of the class registers with DVGeo.addPointSet.
PointSetNames ==
    IF cls = "KSMaxThicknessToChordConstraint"
    THEN {name \o "_coords", name \o "_lete"}
    ELSE IF cls = "ProximityConstraint"
    THEN {name \o "_A", name \o "_B"}
    ELSE {name}

\* The names a sequence of calls passes, names at position w of each call.
Named(calls, w) == {calls[i][w] : i \in 1..Len(calls)}

\* In every state the registered point sets are those of the constructor and
\* the calls of the method that returned name exactly these.
C7_Registered ==
    /\ DOMAIN ptSets = PointSetNames
    /\ op = "evalFunctions" =>
          {updCalls[i] : i \in 1..Len(updCalls)} = PointSetNames
    /\ op = "evalFunctionsSens" =>
          /\ updCalls = <<>>
          /\ nDV > 0 => Named(sensCalls, 2) = PointSetNames
          /\ nDV = 0 => sensCalls = <<>>

\* C7: for every class, every DVGeo.update and DVGeo.totalSensitivity call
\* of evalFunctions / evalFunctionsSens names a point set the constructor
\* registered: `name`; name_coords and name_lete for
\* KSMaxThicknessToChordConstraint; name_A and name_B for
\* ProximityConstraint; and no step after construction registers a point
\* set.
C7_PointSets == [](C7_Registered) /\ [][ptSets' = ptSets]_vars

\* C7 witness: evalFunctionsSens of KSMaxThicknessToChordConstraint made its
\* two totalSensitivity calls, on the two point sets registered.
C7_Witness ==
    /\ op = "evalFunctionsSens" /\ nDV > 0 /\ err = "none"
    /\ cls = "KSMaxThicknessToChordConstraint"
    /\ Len(sensCalls) = 2
    /\ sensCalls[1][2] = "con_coords" /\ sensCalls[2][2] = "con_lete"
    /\ DOMAIN ptSets = {"con_coords", "con_lete"}

\* The dictionary d is made of the results rets of the totalSensitivity
\* calls: the single result, or for two results entries that are an entry of
\* one or the sum of the entries of both.
FromResults(d, rets) ==
    IF Len(rets) = 1 THEN d = rets[1]
    ELSE /\ Len(rets) = 2
         /\ \A key \in DOMAIN d :
              \/ key \in DOMAIN rets[1] /\ d[key] = rets[1][key]
              \/ key \in DOMAIN rets[2] /\ d[key] = rets[2][key]
              \/ /\ key \in DOMAIN rets[1] \cap DOMAIN rets[2]
                 /\ d[key] = rets[1][key] + rets[2][key]

\* C8 as stated: for every class, evalFunctionsSens with getNDV() = 0 leaves
\* funcsSens as passed and calls totalSensitivity never; with getNDV() > 0 it
\* sets funcsSens[name] to what it obtained from totalSensitivity and leaves
\* every other key as passed.
C8_SensFrame ==
    op = "evalFunctionsSens" =>
        IF nDV = 0
        THEN funcsSens = funcsSensIn /\ sensCalls = <<>>
        ELSE /\ OthersKept(funcsSensIn, funcsSens)
             /\ FromResults(funcsSens[name], sensRet)

\* C9 as stated: KSMaxThicknessToChordConstraint.evalFunctionsSens does not
\* fail and stores, for every key of either totalSensitivity result, the sum
\* of the two contributions, a key absent from one result contributing zero.
C9_KSMaxSensSum ==
    (cls = "KSMaxThicknessToChordConstraint" /\ op = "evalFunctionsSens"
        /\ nDV > 0) =>
        LET tmp0 == sensRet[1]
            tmp1 == sensRet[2]
        IN  /\ err = "none"
            /\ name \in DOMAIN funcsSens
            /\ DOMAIN funcsSens[name] = DOMAIN tmp0 \cup DOMAIN tmp1
            /\ \A key \in DOMAIN tmp0 \cup DOMAIN tmp1 :
                 funcsSens[name][key] =
                    (IF key \in DOMAIN tmp0 THEN tmp0[key] ELSE 0)
                    + (IF key \in DOMAIN tmp1 THEN tmp1[key] ELSE 0)

\* C10: ProximityConstraint.evalFunctionsSens stores under funcsSens[name] a
\* dictionary over the union of the keys of the two totalSensitivity results
\* (point set A, point set B): the sum where both have the key, the one value
\* where only one has it.
C10_ProximitySensUnion ==
    (cls = "ProximityConstraint" /\ op = "evalFunctionsSens" /\ nDV > 0) =>
        LET A == sensRet[1]
            B == sensRet[2]
            d == funcsSens[name]
        IN  /\ sensCalls[1][2] = name \o "_A" /\ sensCalls[2][2] = name \o "_B"
            /\ DOMAIN d = DOMAIN A \cup DOMAIN B
            /\ \A key \in DOMAIN A \cap DOMAIN B : d[key] = A[key] + B[key]
            /\ \A key \in DOMAIN A \ DOMAIN B : d[key] = A[key]
            /\ \A key \in DOMAIN B \ DOMAIN A : d[key] = B[key]

\* C10 witness: A reported twist only, B twist and shape: twist is summed,
\* shape is taken from B.
C10_Witness ==
    /\ cls = "ProximityConstraint" /\ op = "evalFunctionsSens" /\ nDV > 0
    /\ DOMAIN sensRet[1] = {"twist"} /\ DOMAIN sensRet[2] = {"twist", "shape"}
    /\ funcsSens[name] = [key \in {"twist", "shape"} |->
                             IF key = "twist" THEN 5 ELSE 8]

\* Points per constraint in the coordinate array of the class.
GroupWidth == IF cls = "ThicknessToChordConstraint" THEN 4 ELSE 2

\* C11: in ThicknessConstraint, ProjectedThicknessConstraint and
\* ThicknessToChordConstraint the seed passed to DVGeo.totalSensitivity has
\* shape (nCon, number of embedded points, 3), and row i is zero at every
\* point outside constraint i (points other than 2i, 2i+1, respectively
\* 4i..4i+3), whatever the length of the input: trailing points beyond the
\* last full group have zero seed in every row.
C11_SeedShape ==
    (cls \in {"ThicknessConstraint", "ProjectedThicknessConstraint",
              "ThicknessToChordConstraint"}
        /\ op = "evalFunctionsSens" /\ nDV > 0) =>
        LET seed == sensCalls[1][1]
            nPts == ptSets[name]
        IN  /\ Len(sensCalls) = 1
            /\ nPts = Len(ctor.coords)
            /\ Len(seed) = nCon /\ nCon = nPts \div GroupWidth
            /\ \A i \in 0..(nCon - 1) :
                 /\ Len(At(seed, i)) = nPts
                 /\ \A p \in 0..(nPts - 1) :
                      /\ Len(At(At(seed, i), p)) = 3
                      /\ p \div GroupWidth # i => At(At(seed, i), p) = Zero3

\* C11 witness: ThicknessConstraint over five points (two toothpicks and an
\* unpaired point): row 0 holds seeds at points 0 and 1, and the unpaired
\* point 4 has zero seed in both rows.
C11_Witness ==
    /\ cls = "ThicknessConstraint" /\ op = "evalFunctionsSens" /\ nDV > 0
    /\ Len(coords) = 5 /\ nCon = 2
    /\ At(At(sensCalls[1][1], 0), 0) # Zero3
    /\ At(At(sensCalls[1][1], 0), 1) # Zero3
    /\ At(At(sensCalls[1][1], 0), 4) = Zero3
    /\ At(At(sensCalls[1][1], 1), 4) = Zero3

\* In an evalFunctionsSens return of TESlopeConstraint with getNDV() > 0:
\* _compute was called 3 * nCoords times, and call number 3 i + j saw the
\* cached coordinates with the imaginary step on component (i, j) alone.
C12_OneStep ==
    (cls = "TESlopeConstraint" /\ op = "evalFunctionsSens" /\ nDV > 0) =>
        /\ Len(computeArgs) = 3 * Len(coords)
        /\ \A idx \in 0..(3 * Len(coords) - 1) :
             LET seen == At(computeArgs, idx) IN
             /\ Len(seen) = Len(coords)
             /\ \A p \in 0..(Len(coords) - 1), q \in 0..2 :
                  /\ Re(At(At(seen, p), q)) = At(At(coords, p), q)
                  /\ Im(At(At(seen, p), q)) =
                        IF p = idx \div 3 /\ q = idx % 3 THEN One ELSE Zero

\* C12: during TESlopeConstraint.evalFunctionsSens every call of _compute
\* in the double loop sees exactly one component carrying the imaginary
\* step, the one of its pass, all others having zero imaginary part;
\* _compute is called nCoords * dimCoords times; and the call leaves
\* self.coords as it was, the step being put on a complex copy.
C12_ComplexStep ==
    /\ [](C12_OneStep)
    /\ [][(cls = "TESlopeConstraint" /\ op' = "evalFunctionsSens")
            => coords' = coords]_vars

\* C12 witness: the loop ran over five points (two toothpicks and the
\* trailing edge point), fifteen calls of _compute; the last one saw the
\* step on the z component of the trailing edge point.
C12_Witness ==
    /\ cls = "TESlopeConstraint" /\ op = "evalFunctionsSens" /\ nDV > 0
    /\ Len(coords) = 5 /\ Len(computeArgs) = 15
    /\ Im(At(At(At(computeArgs, 14), 4), 2)) = One
    /\ Im(At(At(At(computeArgs, 14), 0), 0)) = Zero

\* DVGeo.update returned, for every point set, exactly the coordinates given
\* at construction.
Unmoved ==
    IF cls = "KSMaxThicknessToChordConstraint"
    THEN updRet = <<ctor.coords, <<ctor.lePt, ctor.tePt>>>>
    ELSE IF cls = "ProximityConstraint"
    THEN updRet = <<ctor.coordsA, ctor.coordsB>>
    ELSE updRet = <<ctor.coords>>

\* No length the baseline of the class is made of is zero: the thicknesses,
\* and the chords or arc lengths they are divided by.
BaselineNonZero ==
    IF cls = "ThicknessToChordConstraint"
    THEN \A i \in 0..(Len(ctor.coords) \div 4 - 1) :
            /\ eDist(At(ctor.coords, 4 * i), At(ctor.coords, 4 * i + 1)) # Zero
            /\ eDist(At(ctor.coords, 4 * i + 2), At(ctor.coords, 4 * i + 3)) # Zero
    ELSE IF cls = "KSMaxThicknessToChordConstraint"
    THEN /\ eDist(ctor.lePt, ctor.tePt) # Zero
         /\ \A i \in 0..(Len(ctor.coords) \div 2 - 1) : Thick(ctor.coords, i) # Zero
    ELSE IF cls = "TESlopeConstraint"
    THEN LET n == (Len(ctor.coords) - 1) \div 2 IN
         \A k \in 0..(n - 1) :
            Thick(ctor.coords, k) # Zero /\ ArcLength(ctor.coords, n, k) # Zero
    ELSE IF cls = "ProximityConstraint"
    THEN \A k \in 1..Len(ctor.coordsA) : eDist(ctor.coordsA[k], ctor.coordsB[k]) # Zero
    ELSE \A i \in 0..(Len(ctor.coords) \div 2 - 1) : Thick(ctor.coords, i) # Zero

\* C13: when DVGeo.update returns exactly the construction coordinates and
\* no baseline length is zero, evalFunctions writes 1 for every value in
\* scaled mode (always, for ThicknessToChordConstraint; for
\* KSMaxThicknessToChordConstraint the KS value over the equal stored KS
\* value max0), and in unscaled mode the stored baseline: D0, max0 or
\* teSlope0.
C13_Baseline ==
    (op = "evalFunctions" /\ Unmoved /\ BaselineNonZero) =>
        IF cls = "KSMaxThicknessToChordConstraint"
        THEN funcs[name] = IF scaled THEN Quotient(max0, max0) ELSE Term(max0)
        ELSE IF scaled \/ cls = "ThicknessToChordConstraint"
        THEN /\ Len(funcs[name]) = nCon
             /\ \A k \in 1..nCon : funcs[name][k] = One
        ELSE IF cls = "TESlopeConstraint"
        THEN funcs[name] = teSlope0
        ELSE funcs[name] = D0

\* C13 witness: a scaled ProjectedThicknessConstraint of two toothpicks of
\* lengths 3 and 5 evaluated on the construction coordinates: both values
\* are 1.
C13_Witness ==
    /\ cls = "ProjectedThicknessConstraint" /\ op = "evalFunctions" /\ scaled
    /\ Unmoved /\ BaselineNonZero
    /\ D0 = <<Rat(3), Rat(5)>>
    /\ funcs[name] = <<One, One>>

\* The reference data of the object.
Reference == <<nCon, D0, dir_vec, ToC0, max0, teSlope0, rho, ksApproach, scaled>>

\* C14: no evalFunctions or evalFunctionsSens call changes the reference
\* data computed in the constructor (nCon, D0, dir_vec, ToC0, max0, teSlope0,
\* rho, ksApproach, scaled), and an evalFunctions that gets from DVGeo.update
\* the coordinates the evalFunctions before it got stores the same values.
C14_ReferenceKept ==
    /\ [][Reference' = Reference]_vars
    /\ [][(op' = "evalFunctions" /\ lastEval.ret = updRet')
            => funcs'[name] = lastEval.value]_vars

\* C14 witness: a scaled TESlopeConstraint of two toothpicks was evaluated
\* on moved coordinates, differentiated, and evaluated again on the same
\* coordinates; teSlope0 is as constructed.
C14_Witness ==
    /\ cls = "TESlopeConstraint" /\ op = "evalFunctions" /\ scaled
    /\ lastEval.again /\ updRet # <<ctor.coords>>
    /\ nCon = 2
    /\ \A k \in 0..1 : At(teSlope0, k) = Slope(ctor.coords, 2, k)

\* The coordinates the object caches: self.coords, with self.leTePts, or
\* self.coordsA and self.coordsB.
Cached ==
    IF cls = "KSMaxThicknessToChordConstraint" THEN <<coords, leTePts>>
    ELSE IF cls = "ProximityConstraint" THEN <<coordsA, coordsB>>
    ELSE <<coords>>

\* What the most recent evalFunctions got from DVGeo.update, or the
\* construction coordinates if there was none.
Latest ==
    IF lastEval # NoEval THEN lastEval.ret
    ELSE IF cls = "KSMaxThicknessToChordConstraint"
    THEN <<ctor.coords, <<ctor.lePt, ctor.tePt>>>>
    ELSE IF cls = "ProximityConstraint" THEN <<ctor.coordsA, ctor.coordsB>>
    ELSE <<ctor.coords>>

\* The seeds of the class, differentiated at the coordinates x (of the
\* classes that differentiate by formula).
SeedsAt(x) ==
    IF cls = "ThicknessConstraint"
    THEN <<ThicknessSeed(x[1], nCon, scaled, D0, nCon)>>
    ELSE IF cls = "ProjectedThicknessConstraint"
    THEN <<ProjectedSeed(x[1], nCon, scaled, D0, dir_vec, nCon)>>
    ELSE IF cls = "ThicknessToChordConstraint"
    THEN <<ToCSeed(x[1], nCon, ToC0, nCon)>>
    ELSE IF cls = "ProximityConstraint"
    THEN ProximitySeed(x[1], x[2], nCon, scaled, D0)
    ELSE LET ToC == KSMaxToC(x[1], x[2], nPoint, divideByChord)
         IN  <<KSMaxSeed(ToC, rho, ksApproach, scaled, max0,
                         KSMaxdToCdCoords(x[1], x[2], nPoint, divideByChord),
                         "i,ijk->ijk"),
               KSMaxSeed(ToC, rho, ksApproach, scaled, max0,
                         KSMaxdToCdLeTePts(x[1], x[2], nPoint, divideByChord),
                         "i,ijk->jk")>>

\* In every state the cached coordinates are those of the most recent
\* evalFunctions (of the constructor, before the first); an
\* evalFunctionsSens return made no DVGeo.update call and passed the seeds
\* differentiated there: the seeds its formulas give there, or for
\* TESlopeConstraint the complex step taken there on each _compute call.
C15_AtLatest ==
    /\ Cached = Latest
    /\ op = "evalFunctionsSens" =>
         /\ updCalls = <<>> /\ updRet = <<>>
         /\ (nDV > 0 /\ cls # "TESlopeConstraint") =>
              [i \in 1..Len(sensCalls) |-> sensCalls[i][1]] = SeedsAt(Latest)
         /\ (nDV > 0 /\ cls = "TESlopeConstraint") =>
              /\ computeArgs # <<>>
              /\ \A idx \in 1..Len(computeArgs) :
                   [p \in 1..Len(computeArgs[idx]) |->
                       [q \in 1..3 |-> Re(computeArgs[idx][p][q])]] = Latest[1]

\* C15: evalFunctionsSens never calls DVGeo.update; in every class it
\* differentiates at the coordinates cached by the most recent evalFunctions
\* (at the construction coordinates if there was none); only evalFunctions
\* replaces the cached coordinates.
C15_SensAtCached ==
    /\ [](C15_AtLatest)
    /\ [][cached' # cached => op' = "evalFunctions"]_vars
    /\ [][op' = "evalFunctionsSens" => cached' = cached]_vars

\* C15 witness: a ThicknessConstraint evaluated on coordinates other than
\* those of construction, then differentiated: the seed is the one at the
\* coordinates of that evaluation, not the one at the construction
\* coordinates.
C15_Witness ==
    /\ cls = "ThicknessConstraint" /\ op = "evalFunctionsSens" /\ nDV > 0
    /\ lastEval # NoEval /\ lastEval.ret # <<ctor.coords>>
    /\ nCon = 2
    /\ sensCalls[1][1] = ThicknessSeed(lastEval.ret[1], nCon, scaled, D0, nCon)
    /\ sensCalls[1][1] # ThicknessSeed(ctor.coords, nCon, scaled, D0, nCon)

====
